---- MODULE Spec2Model ----
(***************************************************************************)
(* lyken: the Dart front-end's module loader (src/src/dart/ast.rs,         *)
(* Module::load and its thread-local cache) and the visitor framework      *)
(* (src/src/dart/visit.rs).                                                *)
(***************************************************************************)
EXTENDS Integers, Sequences, FiniteSets, TLC

(***************************************************************************)
(* Bounds of the model.                                                    *)
(***************************************************************************)
\* Elements of the lists of the trees a visitor walks.
MaxList == 2
\* Top-level Module::load calls the driver makes, over all threads.
MaxLoads == 3
\* Items in one source file.
MaxItems == 2
\* Frames of Module::load the call stack of one thread holds before the
\* process dies of stack exhaustion.
MaxDepth == 3

\* The calls of values() made on the operator enumerations.
MaxCalls == 2

(***************************************************************************)
(* The file system.  Canonical paths are absolute; the other spellings are *)
(* relative.                                                               *)
(***************************************************************************)
Files == {"/a", "/b"}
Spellings == {"a", "./a", "b"}
Paths == Files \cup Spellings
Threads == {1, 2}

\* What `part` and other declarations a file holds, in source order: a part
\* names the spelling of the file it includes.
ItemSrc == {"class"} \cup Spellings

ItemSeqs == UNION {[1..n -> ItemSrc] : n \in 0..MaxItems}

\* err: "none" a well-formed file; "parse" the parser rejects the file after
\* its items; "lex" tokenization rejects it before any item; "io" the file
\* exists and cannot be opened; "missing" there is no such file.
Contents ==
    {[items |-> s, err |-> e] : s \in ItemSeqs, e \in {"none", "parse"}}
    \cup {[items |-> <<>>, err |-> e] : e \in {"lex", "io", "missing"}}

VARIABLES
    fs,        \* Files -> Contents: the source files, immutable during a run
    heap,      \* the Module values allocated so far; a Node<Module> is an index
    owner,     \* per heap cell: the thread that allocated it
    cache,     \* per thread-local slot: PathBuf -> Node<Module>, 0 when absent
    stack,     \* per thread: the Module::load frames in progress, innermost last
    printed,   \* per thread and path: the diagnostics println! has written
    parses,    \* per thread and file: the times Parser::with_file was entered
    returns,   \* what every finished Module::load returned
    loads,     \* top-level loads started
    crashed,   \* the process died of stack exhaustion
    borrow,    \* per thread-local slot: the RefCell's live Refs, -1 for a RefMut
    panicked,  \* per thread: it panicked on a borrow of the RefCell
    root,      \* the Module a visitor walks
    agenda,    \* the places of the nodes whose visit is called next
    trace,     \* the Visitor methods called so far, with the node's place
    iter,      \* the iterator the last values() returned, <<>> before any call
    yielded,   \* the items next() has returned from it so far
    exhausted, \* next() has returned None
    ncalls,    \* the calls of values() made
    spelled    \* the operator and the result of the last as_str()

loaderVars ==
    <<fs, heap, owner, cache, stack, printed, parses, returns, loads, crashed,
      borrow, panicked>>

visitVars == <<root, agenda, trace>>

opVars == <<iter, yielded, exhausted, ncalls, spelled>>

vars == <<loaderVars, visitVars, opVars>>

(***************************************************************************)
(* Path::canonicalize: resolves the relative segments and fails when the   *)
(* file does not exist.                                                    *)
(***************************************************************************)
Resolve(p) ==
    CASE p \in {"a", "./a", "/a"} -> "/a"
      [] p \in {"b", "/b"} -> "/b"

Canonicalize(p, f) ==
    IF f[Resolve(p)].err = "missing"
        THEN [ok |-> FALSE, path |-> p]
        ELSE [ok |-> TRUE, path |-> Resolve(p)]

(***************************************************************************)
(* Module::load                                                            *)
(***************************************************************************)
\* thread_local!(static CACHE ...): the slot of the cache a thread sees.
SharedCacheSlot(t) == 1

CacheSlot(t) == t

\* CACHE.with(|c| c.borrow().get(path).cloned()): the key looked up is the
\* canonicalized path.
LookupRequested(arg, canon) == arg

LookupKey(arg, canon) == canon

CacheGet(t, key) == cache[CacheSlot(t)][key]

\* The Ref of the lookup kept alive after the lookup.
RefKept(b) == b + 1

\* The borrow flag after `CACHE.with(|c| c.borrow().get(path).cloned())`, b
\* before it: the Ref is a temporary of the closure's body, dropped before
\* the closure returns.  (No RefMut is ever alive at this point: the one of
\* the insertion is dropped within it.)
AfterLookup(b) == (b + 1) - 1

\* The Err arm of `match module`: the module that stands for a failed load.
UnflaggedModule(path) == [path |-> path, items |-> <<>>, has_error |-> FALSE]

FailedModule(path) == [path |-> path, items |-> <<>>, has_error |-> TRUE]

\* `match module { Ok(module) => module, Err(error) => ... }`
AlwaysFailed(result, path) == FailedModule(path)

ToModule(result, path) ==
    IF result.ok THEN result.module ELSE FailedModule(path)

\* println!: one diagnostic line, for the path the load holds at that point.
Println(pr, t, path) == [pr EXCEPT ![t][path] = @ + 1]

Top(t) == stack[t][Len(stack[t])]

Running(t) == ~crashed /\ ~panicked[t] /\ stack[t] # <<>>

Frame(arg) == [arg |-> arg, path |-> arg, pc |-> "enter", pos |-> 1, items |-> <<>>]

Ok(module) == [ok |-> TRUE, kind |-> "none", module |-> module]

Err(kind) == [ok |-> FALSE, kind |-> kind, module |-> FailedModule("")]

\* `module` is handed back: to the parser that asked for it, which stores it
\* in the Part item it is building, or to the driver.
Return(t, path, h, outcome) ==
    LET n == Len(stack[t])
    IN /\ returns' = returns \cup
            {[t |-> t, arg |-> Top(t).arg, path |-> path, outcome |-> outcome, module |-> h]}
       /\ stack' = [stack EXCEPT ![t] =
            IF n = 1 THEN <<>>
            ELSE [SubSeq(@, 1, n - 1) EXCEPT ![n - 1] =
                    [@ EXCEPT !.items = Append(@, [kind |-> "Part", module |-> h]),
                              !.pos = @ + 1]]]

\* The tail of Module::load: the match on the result, the diagnostic, the
\* insertion under module.path, the return.  c.borrow_mut() panics when a
\* borrow of the RefCell is alive; its RefMut is dropped with the closure.
Finish(t, result, path) ==
    LET module == ToModule(result, path)
        h == Len(heap) + 1
        outcome == IF result.ok THEN "ok" ELSE result.kind
    IN /\ heap' = Append(heap, module)
       /\ owner' = Append(owner, t)
       /\ printed' = IF result.ok THEN printed ELSE Println(printed, t, path)
       /\ IF borrow[CacheSlot(t)] = 0
             THEN /\ cache' = [cache EXCEPT ![CacheSlot(t)][module.path] = h]
                  /\ Return(t, path, h, outcome)
                  /\ UNCHANGED <<borrow, panicked>>
             ELSE /\ panicked' = [panicked EXCEPT ![t] = TRUE]
                  /\ UNCHANGED <<cache, stack, returns, borrow>>

\* The driver calls Module::load(path).
Load(t, arg) ==
    /\ ~crashed
    /\ stack[t] = <<>>
    /\ loads < MaxLoads
    /\ loads' = loads + 1
    /\ stack' = [stack EXCEPT ![t] = <<Frame(arg)>>]
    /\ UNCHANGED <<visitVars, opVars, fs, heap, owner, cache, printed, parses, returns, crashed, borrow, panicked>>

\* path.canonicalize()? fails: the do-catch block ends with Err(Io) before
\* the cache is looked at, and `path` is still the requested path.
CanonFail(t) ==
    /\ Running(t)
    /\ Top(t).pc = "enter"
    /\ ~Canonicalize(Top(t).arg, fs).ok
    /\ Finish(t, Err("io"), Top(t).path)
    /\ UNCHANGED <<visitVars, opVars, fs, parses, loads, crashed>>

\* The canonical path is in the cache: `return module`.
CacheHit(t) ==
    /\ Running(t)
    /\ Top(t).pc = "enter"
    /\ LET c == Canonicalize(Top(t).arg, fs)
           h == CacheGet(t, LookupKey(Top(t).arg, c.path))
       IN /\ c.ok
          /\ h # 0
          /\ Return(t, c.path, h, "hit")
    /\ borrow' = [borrow EXCEPT ![CacheSlot(t)] = AfterLookup(@)]
    /\ UNCHANGED <<visitVars, opVars, fs, heap, owner, cache, printed, parses, loads, crashed, panicked>>

\* The canonical path is not in the cache: Parser::with_file(path, ...).
ParseStart(t) ==
    /\ Running(t)
    /\ Top(t).pc = "enter"
    /\ LET c == Canonicalize(Top(t).arg, fs)
       IN /\ c.ok
          /\ CacheGet(t, LookupKey(Top(t).arg, c.path)) = 0
          /\ stack' = [stack EXCEPT ![t][Len(stack[t])] =
                [@ EXCEPT !.path = c.path, !.pc = "parse"]]
          /\ parses' = [parses EXCEPT ![t][c.path] = @ + 1]
    /\ borrow' = [borrow EXCEPT ![CacheSlot(t)] = AfterLookup(@)]
    /\ UNCHANGED <<visitVars, opVars, fs, heap, owner, cache, printed, returns, loads, crashed, panicked>>

(***************************************************************************)
(* The parser, as far as Module::load sees it: it opens and tokenizes the  *)
(* file, builds the items in source order, calls Module::load for every    *)
(* part, and gives back Ok(Module { path, items, has_error: false }) or an *)
(* error.                                                                  *)
(***************************************************************************)
Source(t) == fs[Top(t).path]

Parsing(t) == Running(t) /\ Top(t).pc = "parse"

\* The file cannot be opened or tokenized (before any item), or the parser
\* rejects it (after its items).
ParseError(t) ==
    CASE Source(t).err = "io" -> "io"
      [] Source(t).err = "lex" -> "syntax"
      [] Source(t).err = "parse" /\ Top(t).pos > Len(Source(t).items) -> "syntax"
      [] OTHER -> "none"

ParseFail(t) ==
    /\ Parsing(t)
    /\ ParseError(t) # "none"
    /\ Finish(t, Err(ParseError(t)), Top(t).path)
    /\ UNCHANGED <<visitVars, opVars, fs, parses, loads, crashed>>

ParseClass(t) ==
    /\ Parsing(t)
    /\ ParseError(t) = "none"
    /\ Top(t).pos <= Len(Source(t).items)
    /\ Source(t).items[Top(t).pos] = "class"
    /\ stack' = [stack EXCEPT ![t][Len(stack[t])] =
          [@ EXCEPT !.items = Append(@, [kind |-> "Class", module |-> 0]),
                    !.pos = @ + 1]]
    /\ UNCHANGED <<visitVars, opVars, fs, heap, owner, cache, printed, parses, returns, loads, crashed, borrow, panicked>>

\* `part '<uri>';`: the parser calls Module::load for the included file.
ParsePart(t) ==
    /\ Parsing(t)
    /\ ParseError(t) = "none"
    /\ Top(t).pos <= Len(Source(t).items)
    /\ Source(t).items[Top(t).pos] \in Spellings
    /\ Len(stack[t]) < MaxDepth
    /\ stack' = [stack EXCEPT ![t] = Append(@, Frame(Source(t).items[Top(t).pos]))]
    /\ UNCHANGED <<visitVars, opVars, fs, heap, owner, cache, printed, parses, returns, loads, crashed, borrow, panicked>>

\* The same call with the thread's stack exhausted: the process aborts.
StackOverflow(t) ==
    /\ Parsing(t)
    /\ ParseError(t) = "none"
    /\ Top(t).pos <= Len(Source(t).items)
    /\ Source(t).items[Top(t).pos] \in Spellings
    /\ Len(stack[t]) >= MaxDepth
    /\ crashed' = TRUE
    /\ UNCHANGED <<visitVars, opVars, fs, heap, owner, cache, stack, printed, parses, returns, loads, borrow, panicked>>

ParseDone(t) ==
    /\ Parsing(t)
    /\ ParseError(t) = "none"
    /\ Top(t).pos > Len(Source(t).items)
    /\ Finish(t, Ok([path |-> Top(t).path, items |-> Top(t).items, has_error |-> FALSE]),
              Top(t).path)
    /\ UNCHANGED <<visitVars, opVars, fs, parses, loads, crashed>>

LoaderInit(workers, contents) ==
    /\ fs \in [Files -> contents]
    /\ heap = <<>>
    /\ owner = <<>>
    /\ cache = [s \in Threads |-> [p \in Paths |-> 0]]
    /\ stack = [t \in workers |-> <<>>]
    /\ printed = [t \in workers |-> [p \in Paths |-> 0]]
    /\ parses = [t \in workers |-> [f \in Files |-> 0]]
    /\ returns = {}
    /\ loads = 0
    /\ crashed = FALSE
    /\ borrow = [s \in Threads |-> 0]
    /\ panicked = [t \in workers |-> FALSE]

(***************************************************************************)
(* The AST (src/src/dart/ast.rs) as the visitor (src/src/dart/visit.rs)    *)
(* walks it.  A node is a record with its kind, its variant and its        *)
(* fields.  A field that holds nodes is a sequence of them: a Node<T> or   *)
(* an embedded struct has one element, an Option none or one, a Vec any    *)
(* number.  A struct or tuple without a visit method of its own (ArgDef,   *)
(* TypeParameter, SwitchCase, NamedArg, MetaItem, ForLoop, Cascade,        *)
(* CatchPart, VarType, Import) is a record inside its parent's field.  A   *)
(* Symbol is its interned index.                                           *)
(***************************************************************************)
\* Where a child sits in its parent: field f, element i and, for a child
\* inside an embedded struct, that struct's field g, element j.
At(f, i) == <<f, i, "", 0>>

Each(n, f) == [i \in 1..Len(n[f]) |-> At(f, i)]

Sub(n, f, i, g) == [j \in 1..Len(n[f][i][g]) |-> <<f, i, g, j>>]

RECURSIVE Flat(_)
Flat(ss) == IF ss = <<>> THEN <<>> ELSE Head(ss) \o Flat(Tail(ss))

ForAll(n, f, Op(_)) == Flat([i \in 1..Len(n[f]) |-> Op(i)])

Child(n, a) ==
    IF a[3] = "" THEN n[a[1]][a[2]] ELSE n[a[1]][a[2]][a[3]][a[4]]

RECURSIVE NodeAt(_, _)
NodeAt(n, pos) ==
    IF pos = <<>> THEN n ELSE NodeAt(Child(n, Head(pos)), Tail(pos))

(***************************************************************************)
(* The children the data model gives each node, in declaration order.      *)
(***************************************************************************)
ChildrenItem(n) ==
    CASE n.variant \in {"LibraryName", "PartOf"} -> Each(n, "meta")
      [] n.variant = "Import" -> Each(n, "meta") \o Sub(n, "import", 1, "uri")
      [] n.variant = "Export" -> Each(n, "meta") \o Each(n, "string_literal")
      [] n.variant = "Part" -> Each(n, "meta") \o Each(n, "uri") \o Each(n, "module")
      [] n.variant = "Class" ->
            Each(n, "meta") \o Each(n, "generics") \o Each(n, "superclass")
                \o Each(n, "mixins") \o Each(n, "interfaces") \o Each(n, "members")
      [] n.variant = "MixinClass" ->
            Each(n, "meta") \o Each(n, "generics") \o Each(n, "mixins")
                \o Each(n, "interfaces")
      [] n.variant = "Enum" ->
            Each(n, "meta") \o ForAll(n, "values", LAMBDA i : Sub(n, "values", i, "meta"))
      [] n.variant = "TypeAlias" ->
            Each(n, "meta") \o Each(n, "generics") \o Each(n, "ty")
      [] n.variant = "Function" -> Each(n, "meta") \o Each(n, "function")
      [] n.variant = "Vars" ->
            Each(n, "meta") \o Sub(n, "var_type", 1, "ty") \o Each(n, "vars")

ChildrenClassMember(n) ==
    CASE n.variant = "Redirect" -> Each(n, "meta") \o Each(n, "sig") \o Each(n, "path")
      [] n.variant = "Constructor" ->
            Each(n, "meta") \o Each(n, "sig") \o Each(n, "initializers")
                \o Each(n, "function_body")
      [] n.variant = "Method" -> Each(n, "meta") \o Each(n, "function")
      [] n.variant = "Fields" ->
            Each(n, "meta") \o Sub(n, "var_type", 1, "ty") \o Each(n, "initializers")

ChildrenConstructorInitializer(n) ==
    IF n.variant = "Field" THEN Each(n, "expr") ELSE Each(n, "args")

\* MetaItem::Attribute { qualified, arguments }, MetaItem::Comments(_)
ChildrenMeta(n) ==
    ForAll(n, "items",
           LAMBDA i :
               IF n.items[i].variant = "Attribute"
                   THEN Sub(n, "items", i, "qualified") \o Sub(n, "items", i, "arguments")
                   ELSE <<>>)

ChildrenQualified(n) == Each(n, "prefix") \o Each(n, "params")

\* TypeParameter { metadata, name, extends }
ChildrenGenerics(n) ==
    ForAll(n, "params",
           LAMBDA i : Sub(n, "params", i, "metadata") \o Sub(n, "params", i, "extends"))

ChildrenType(n) ==
    CASE n.variant = "Path" -> Each(n, "qualified")
      [] n.variant \in {"FunctionOld", "Function"} -> Each(n, "sig")
      [] n.variant = "Infer" -> <<>>

ChildrenFunction(n) == Each(n, "generics") \o Each(n, "sig") \o Each(n, "body")

\* ArgDef { metadata, covariant, ty, field, var }
ChildrenArgDefs(n, f) ==
    ForAll(n, f,
           LAMBDA i : Sub(n, f, i, "metadata") \o Sub(n, f, i, "ty") \o Sub(n, f, i, "var"))

ChildrenFnSig(n) ==
    Each(n, "return_type") \o ChildrenArgDefs(n, "required")
        \o ChildrenArgDefs(n, "optional")

ChildrenFnBody(n) ==
    CASE n.variant = "Arrow" -> Each(n, "expr")
      [] n.variant = "Block" -> Each(n, "statement")
      [] n.variant = "Native" -> Each(n, "string_literal")

\* TryPart { on, catch, block }, CatchPart { exception, trace }
ChildrenTryPart(n) ==
    Each(n, "on")
        \o ForAll(n, "catch",
                  LAMBDA i : Sub(n, "catch", i, "exception") \o Sub(n, "catch", i, "trace"))
        \o Each(n, "block")

ChildrenForLoop(n) ==
    LET loop == n.for_loop[1]
    IN CASE loop.variant = "CLike" ->
              Sub(n, "for_loop", 1, "statement") \o Sub(n, "for_loop", 1, "expr")
                  \o Sub(n, "for_loop", 1, "expressions")
         [] loop.variant = "In" -> Sub(n, "for_loop", 1, "expr")
         [] loop.variant = "InVar" ->
              Sub(n, "for_loop", 1, "ty") \o Sub(n, "for_loop", 1, "var")
                  \o Sub(n, "for_loop", 1, "expr")

ChildrenStatement(n) ==
    CASE n.variant = "Comments" -> Each(n, "statement")
      [] n.variant = "Block" -> Each(n, "statements")
      [] n.variant = "Vars" -> Sub(n, "var_type", 1, "ty") \o Each(n, "vars")
      [] n.variant = "Function" -> Each(n, "function")
      [] n.variant = "For" -> ChildrenForLoop(n) \o Each(n, "statement")
      [] n.variant = "While" -> Each(n, "expr") \o Each(n, "statement")
      [] n.variant = "DoWhile" -> Each(n, "statement") \o Each(n, "expr")
      [] n.variant = "Switch" ->
            Each(n, "expr")
                \o ForAll(n, "cases",
                          LAMBDA i : Sub(n, "cases", i, "value")
                                        \o Sub(n, "cases", i, "statements"))
      [] n.variant = "If" ->
            Each(n, "expr") \o Each(n, "statement") \o Each(n, "optional_statement")
      [] n.variant = "Try" -> Each(n, "statement") \o Each(n, "try_parts")
      [] n.variant \in {"Rethrow", "Break", "Continue"} -> <<>>
      [] n.variant \in {"Return", "Expression", "Yield", "YieldEach"} -> Each(n, "expr")
      [] n.variant = "Assert" -> Each(n, "args")
      [] n.variant = "Labelled" -> Each(n, "statement")

ChildrenExpr(n) ==
    CASE n.variant \in {"Comments", "Unary", "Paren", "Throw"} -> Each(n, "expr")
      [] n.variant = "Binary" -> Each(n, "a") \o Each(n, "b")
      [] n.variant = "Conditional" -> Each(n, "a") \o Each(n, "b") \o Each(n, "c")
      [] n.variant \in {"Is", "IsNot", "As"} -> Each(n, "expr") \o Each(n, "ty")
      [] n.variant = "Suffix" -> Each(n, "expr") \o Each(n, "suffix")
      [] n.variant \in {"Identifier", "Number", "Symbol"} -> <<>>
      [] n.variant = "Closure" -> Each(n, "fn_sig") \o Each(n, "fn_body")
      [] n.variant = "New" -> Each(n, "path") \o Each(n, "args")
      [] n.variant = "List" -> Each(n, "element_ty") \o Each(n, "elements")
      [] n.variant = "Map" ->
            ForAll(n, "kv_ty", LAMBDA i : Sub(n, "kv_ty", i, "k") \o Sub(n, "kv_ty", i, "v"))
                \o ForAll(n, "kv", LAMBDA i : Sub(n, "kv", i, "k") \o Sub(n, "kv", i, "v"))
      [] n.variant = "String" -> Each(n, "string_literals")
      [] n.variant = "Cascade" ->
            Each(n, "expr") \o Sub(n, "cascade", 1, "suffixes")
                \o Sub(n, "cascade", 1, "assign")

\* Args { unnamed, named }, NamedArg { name, expr }
ChildrenArgs(n) ==
    Each(n, "unnamed") \o ForAll(n, "named", LAMBDA i : Sub(n, "named", i, "expr"))

ChildrenSuffix(n) ==
    CASE n.variant = "Index" -> Each(n, "expr")
      [] n.variant \in {"Field", "FieldIfNotNull"} -> <<>>
      [] n.variant = "Call" -> Each(n, "types") \o Each(n, "args")

ChildrenStringLiteral(n) ==
    ForAll(n, "interpolated", LAMBDA i : Sub(n, "interpolated", i, "expr"))

Children(n) ==
    CASE n.kind = "Module" -> Each(n, "items")
      [] n.kind = "Item" -> ChildrenItem(n)
      [] n.kind = "ClassMember" -> ChildrenClassMember(n)
      [] n.kind = "ConstructorInitializer" -> ChildrenConstructorInitializer(n)
      [] n.kind = "Meta" -> ChildrenMeta(n)
      [] n.kind = "Qualified" -> ChildrenQualified(n)
      [] n.kind = "Generics" -> ChildrenGenerics(n)
      [] n.kind = "Type" -> ChildrenType(n)
      [] n.kind = "Function" -> ChildrenFunction(n)
      [] n.kind = "FnSig" -> ChildrenFnSig(n)
      [] n.kind = "FnBody" -> ChildrenFnBody(n)
      [] n.kind = "TryPart" -> ChildrenTryPart(n)
      [] n.kind = "Statement" -> ChildrenStatement(n)
      [] n.kind = "Block" -> Each(n, "statements")
      [] n.kind = "VarDef" -> Each(n, "init")
      [] n.kind = "Expr" -> ChildrenExpr(n)
      [] n.kind = "Args" -> ChildrenArgs(n)
      [] n.kind = "Suffix" -> ChildrenSuffix(n)
      [] n.kind = "StringLiteral" -> ChildrenStringLiteral(n)

(***************************************************************************)
(* super_visit of every node kind (src/src/dart/visit.rs): the children a  *)
(* node's structural recursion calls visit on, in the order of the calls.  *)
(***************************************************************************)
\* A module whose hook has been called before is not walked again.
VisitedModuleSkipped(n) ==
    IF \E i \in DOMAIN trace :
          trace[i].hook = "dart_module" /\ NodeAt(root, trace[i].pos) = n
        THEN <<>>
        ELSE Each(n, "items")

SuperVisitModule(n) == Each(n, "items")

\* The mixins and the interfaces the other way round.
InterfacesBeforeMixins(n) ==
    Each(n, "meta") \o Each(n, "generics") \o Each(n, "superclass")
        \o Each(n, "interfaces") \o Each(n, "mixins") \o Each(n, "members")

\* The Item::Class arm.
SuperVisitClass(n) ==
    Each(n, "meta") \o Each(n, "generics") \o Each(n, "superclass")
        \o Each(n, "mixins") \o Each(n, "interfaces") \o Each(n, "members")

SuperVisitItem(n) ==
    CASE n.variant \in {"LibraryName", "PartOf"} -> Each(n, "meta")
      [] n.variant = "Import" -> Each(n, "meta") \o Sub(n, "import", 1, "uri")
      [] n.variant = "Export" -> Each(n, "meta") \o Each(n, "string_literal")
      [] n.variant = "Part" -> Each(n, "meta") \o Each(n, "uri") \o Each(n, "module")
      [] n.variant = "Class" -> SuperVisitClass(n)
      [] n.variant = "MixinClass" ->
            Each(n, "meta") \o Each(n, "generics") \o Each(n, "mixins")
                \o Each(n, "interfaces")
      [] n.variant = "Enum" ->
            Each(n, "meta") \o ForAll(n, "values", LAMBDA i : Sub(n, "values", i, "meta"))
      [] n.variant = "TypeAlias" ->
            Each(n, "meta") \o Each(n, "generics") \o Each(n, "ty")
      [] n.variant = "Function" -> Each(n, "meta") \o Each(n, "function")
      [] n.variant = "Vars" ->
            Each(n, "meta") \o Sub(n, "var_type", 1, "ty") \o Each(n, "vars")

SuperVisitClassMember(n) ==
    CASE n.variant = "Redirect" -> Each(n, "meta") \o Each(n, "sig") \o Each(n, "path")
      [] n.variant = "Constructor" ->
            Each(n, "meta") \o Each(n, "sig") \o Each(n, "initializers")
                \o Each(n, "function_body")
      [] n.variant = "Method" -> Each(n, "meta") \o Each(n, "function")
      [] n.variant = "Fields" ->
            Each(n, "meta") \o Sub(n, "var_type", 1, "ty") \o Each(n, "initializers")

SuperVisitConstructorInitializer(n) ==
    CASE n.variant \in {"Super", "This", "Assert"} -> Each(n, "args")
      [] n.variant = "Field" -> Each(n, "expr")

\* MetaItem::Attribute: qualified, then the arguments if any;
\* MetaItem::Comments: nothing.
SuperVisitMeta(n) ==
    ForAll(n, "items",
           LAMBDA i :
               IF n.items[i].variant = "Attribute"
                   THEN Sub(n, "items", i, "qualified") \o Sub(n, "items", i, "arguments")
                   ELSE <<>>)

SuperVisitQualified(n) == Each(n, "prefix") \o Each(n, "params")

\* for generic in self: generic.extends only.
SuperVisitGenerics(n) ==
    ForAll(n, "params", LAMBDA i : Sub(n, "params", i, "extends"))

SuperVisitType(n) ==
    CASE n.variant = "Path" -> Each(n, "qualified")
      [] n.variant \in {"FunctionOld", "Function"} -> Each(n, "sig")
      [] n.variant = "Infer" -> <<>>

SuperVisitFunction(n) == Each(n, "generics") \o Each(n, "sig") \o Each(n, "body")

\* return_type, then of every required and every optional argument
\* arg.ty.ty and arg.var.
SuperVisitFnSig(n) ==
    Each(n, "return_type")
        \o ForAll(n, "required",
                  LAMBDA i : Sub(n, "required", i, "ty") \o Sub(n, "required", i, "var"))
        \o ForAll(n, "optional",
                  LAMBDA i : Sub(n, "optional", i, "ty") \o Sub(n, "optional", i, "var"))

SuperVisitFnBody(n) ==
    CASE n.variant = "Arrow" -> Each(n, "expr")
      [] n.variant = "Block" -> Each(n, "statement")
      [] n.variant = "Native" -> Each(n, "string_literal")

\* The body of the clause before its guard and binders.
BodyBeforeBinders(n) ==
    Each(n, "block") \o Each(n, "on")
        \o ForAll(n, "catch",
                  LAMBDA i : Sub(n, "catch", i, "exception") \o Sub(n, "catch", i, "trace"))

SuperVisitTryPart(n) ==
    Each(n, "on")
        \o ForAll(n, "catch",
                  LAMBDA i : Sub(n, "catch", i, "exception") \o Sub(n, "catch", i, "trace"))
        \o Each(n, "block")

SuperVisitForLoop(n) ==
    LET for_loop == n.for_loop[1]
    IN CASE for_loop.variant = "CLike" ->
              Sub(n, "for_loop", 1, "statement") \o Sub(n, "for_loop", 1, "expr")
                  \o Sub(n, "for_loop", 1, "expressions")
         [] for_loop.variant = "In" -> Sub(n, "for_loop", 1, "expr")
         [] for_loop.variant = "InVar" ->
              Sub(n, "for_loop", 1, "ty") \o Sub(n, "for_loop", 1, "var")
                  \o Sub(n, "for_loop", 1, "expr")

SuperVisitStatement(n) ==
    CASE n.variant = "Comments" -> Each(n, "statement")
      [] n.variant = "Block" -> Each(n, "statements")
      [] n.variant = "Vars" -> Sub(n, "var_type", 1, "ty") \o Each(n, "vars")
      [] n.variant = "Function" -> Each(n, "function")
      [] n.variant = "For" -> SuperVisitForLoop(n) \o Each(n, "statement")
      [] n.variant = "While" -> Each(n, "expr") \o Each(n, "statement")
      [] n.variant = "DoWhile" -> Each(n, "statement") \o Each(n, "expr")
      [] n.variant = "Switch" ->
            Each(n, "expr")
                \o ForAll(n, "cases",
                          LAMBDA i : Sub(n, "cases", i, "value")
                                        \o Sub(n, "cases", i, "statements"))
      [] n.variant = "If" ->
            Each(n, "expr") \o Each(n, "statement") \o Each(n, "optional_statement")
      [] n.variant = "Rethrow" -> <<>>
      [] n.variant = "Try" -> Each(n, "statement") \o Each(n, "try_parts")
      [] n.variant = "Break" -> <<>>
      [] n.variant = "Continue" -> <<>>
      [] n.variant \in {"Return", "Expression"} -> Each(n, "expr")
      [] n.variant \in {"Yield", "YieldEach"} -> Each(n, "expr")
      [] n.variant = "Assert" -> Each(n, "args")
      [] n.variant = "Labelled" -> Each(n, "statement")

SuperVisitBlock(n) == Each(n, "statements")

SuperVisitVarDef(n) == Each(n, "init")

SuperVisitExpr(n) ==
    CASE n.variant = "Comments" -> Each(n, "expr")
      [] n.variant = "Unary" -> Each(n, "expr")
      [] n.variant = "Binary" -> Each(n, "a") \o Each(n, "b")
      [] n.variant = "Conditional" -> Each(n, "a") \o Each(n, "b") \o Each(n, "c")
      [] n.variant \in {"Is", "IsNot", "As"} -> Each(n, "expr") \o Each(n, "ty")
      [] n.variant = "Suffix" -> Each(n, "expr") \o Each(n, "suffix")
      [] n.variant = "Identifier" -> <<>>
      [] n.variant = "New" -> Each(n, "path") \o Each(n, "args")
      [] n.variant = "List" -> Each(n, "element_ty") \o Each(n, "elements")
      [] n.variant = "Map" ->
            ForAll(n, "kv_ty", LAMBDA i : Sub(n, "kv_ty", i, "k") \o Sub(n, "kv_ty", i, "v"))
                \o ForAll(n, "kv", LAMBDA i : Sub(n, "kv", i, "k") \o Sub(n, "kv", i, "v"))
      [] n.variant = "Number" -> <<>>
      [] n.variant = "String" -> Each(n, "string_literals")
      [] n.variant = "Symbol" -> <<>>
      [] n.variant = "Paren" -> Each(n, "expr")
      [] n.variant = "Throw" -> Each(n, "expr")
      [] n.variant = "Cascade" ->
            Each(n, "expr") \o Sub(n, "cascade", 1, "suffixes")
                \o Sub(n, "cascade", 1, "assign")
      [] n.variant = "Closure" -> Each(n, "fn_sig") \o Each(n, "fn_body")

\* An ordering slip: the named arguments first.
NamedArgsFirst(n) ==
    ForAll(n, "named", LAMBDA i : Sub(n, "named", i, "expr")) \o Each(n, "unnamed")

SuperVisitArgs(n) ==
    Each(n, "unnamed") \o ForAll(n, "named", LAMBDA i : Sub(n, "named", i, "expr"))

SuperVisitSuffix(n) ==
    CASE n.variant = "Index" -> Each(n, "expr")
      [] n.variant = "Call" -> Each(n, "types") \o Each(n, "args")
      [] n.variant = "Field" -> <<>>
      [] n.variant = "FieldIfNotNull" -> <<>>

SuperVisitStringLiteral(n) ==
    ForAll(n, "interpolated", LAMBDA i : Sub(n, "interpolated", i, "expr"))

SuperVisit(n) ==
    CASE n.kind = "Module" -> SuperVisitModule(n)
      [] n.kind = "Item" -> SuperVisitItem(n)
      [] n.kind = "ClassMember" -> SuperVisitClassMember(n)
      [] n.kind = "ConstructorInitializer" -> SuperVisitConstructorInitializer(n)
      [] n.kind = "Meta" -> SuperVisitMeta(n)
      [] n.kind = "Qualified" -> SuperVisitQualified(n)
      [] n.kind = "Generics" -> SuperVisitGenerics(n)
      [] n.kind = "Type" -> SuperVisitType(n)
      [] n.kind = "Function" -> SuperVisitFunction(n)
      [] n.kind = "FnSig" -> SuperVisitFnSig(n)
      [] n.kind = "FnBody" -> SuperVisitFnBody(n)
      [] n.kind = "TryPart" -> SuperVisitTryPart(n)
      [] n.kind = "Statement" -> SuperVisitStatement(n)
      [] n.kind = "Block" -> SuperVisitBlock(n)
      [] n.kind = "VarDef" -> SuperVisitVarDef(n)
      [] n.kind = "Expr" -> SuperVisitExpr(n)
      [] n.kind = "Args" -> SuperVisitArgs(n)
      [] n.kind = "Suffix" -> SuperVisitSuffix(n)
      [] n.kind = "StringLiteral" -> SuperVisitStringLiteral(n)

(***************************************************************************)
(* Nodes to walk: every variant of every node kind, over identifiers,      *)
(* with lists of MaxList elements and with optional children present and   *)
(* absent.                                                                 *)
(***************************************************************************)
Identifier(name) == [kind |-> "Expr", variant |-> "Identifier", name |-> name]

Ids(k) == [i \in 1..k |-> Identifier(i)]

Qualified(name, prefix, params) ==
    [kind |-> "Qualified", prefix |-> prefix, name |-> name, params |-> params]

TypePath(name) ==
    [kind |-> "Type", variant |-> "Path", qualified |-> <<Qualified(name, <<>>, <<>>)>>]

TypeInfer == [kind |-> "Type", variant |-> "Infer"]

Args(unnamed, named) ==
    [kind |-> "Args", unnamed |-> unnamed,
     named |-> [i \in 1..Len(named) |-> [name |-> i, expr |-> <<named[i]>>]]]

\* One MetaItem::Attribute per expression, which is its only argument, and
\* a MetaItem::Comments.
Meta(exprs) ==
    [kind |-> "Meta",
     items |-> [i \in 1..Len(exprs) |->
                   [variant |-> "Attribute",
                    qualified |-> <<Qualified(i, <<>>, <<>>)>>,
                    arguments |-> <<Args(<<exprs[i]>>, <<>>)>>]]
               \o <<[variant |-> "Comments"]>>]

NoMeta == [kind |-> "Meta", items |-> <<>>]

VarDef(name, init) == [kind |-> "VarDef", name |-> name, init |-> init]

VarType(ty) == [fcv |-> "Var", ty |-> <<ty>>]

ArgDef(meta, ty, name) ==
    [metadata |-> <<meta>>, ty |-> <<ty>>, var |-> <<VarDef(name, <<>>)>>]

FnSig(required, optional) ==
    [kind |-> "FnSig", return_type |-> <<TypeInfer>>,
     required |-> required, optional |-> optional]

TypeParameter(meta, name, extends) ==
    [metadata |-> <<meta>>, name |-> name, extends |-> extends]

Generics(params) == [kind |-> "Generics", params |-> params]

StringLiteral(exprs) ==
    [kind |-> "StringLiteral",
     interpolated |-> [i \in 1..Len(exprs) |-> [expr |-> <<exprs[i]>>]]]

FnBody(variant, node) ==
    CASE variant = "Arrow" -> [kind |-> "FnBody", variant |-> variant, expr |-> node]
      [] variant = "Block" -> [kind |-> "FnBody", variant |-> variant, statement |-> node]
      [] variant = "Native" ->
            [kind |-> "FnBody", variant |-> variant, string_literal |-> node]

Function(generics, sig, body) ==
    [kind |-> "Function", name |-> 1, generics |-> <<Generics(generics)>>,
     sig |-> <<sig>>, body |-> body]

ExprStatement(e) == [kind |-> "Statement", variant |-> "Expression", expr |-> <<e>>]

Block(statements) == [kind |-> "Block", statements |-> statements]

Suffixes ==
    <<[kind |-> "Suffix", variant |-> "Index", expr |-> <<Identifier(1)>>],
      [kind |-> "Suffix", variant |-> "Field", name |-> 1],
      [kind |-> "Suffix", variant |-> "FieldIfNotNull", name |-> 1],
      [kind |-> "Suffix", variant |-> "Call", types |-> <<TypePath(1)>>,
       args |-> <<Args(Ids(MaxList), Ids(MaxList))>>]>>

Exprs ==
    LET x == Identifier(1)
        y == Identifier(2)
        z == Identifier(3)
        E(variant, e) == [kind |-> "Expr", variant |-> variant, expr |-> <<e>>]
        T(variant, e) ==
            [kind |-> "Expr", variant |-> variant, expr |-> <<e>>, ty |-> <<TypePath(1)>>]
    IN <<x,
         E("Comments", x), E("Unary", x), E("Paren", x), E("Throw", x),
         [kind |-> "Expr", variant |-> "Binary", op |-> 1, a |-> <<x>>, b |-> <<y>>],
         [kind |-> "Expr", variant |-> "Conditional", a |-> <<x>>, b |-> <<y>>, c |-> <<z>>],
         T("Is", x), T("IsNot", x), T("As", x),
         [kind |-> "Expr", variant |-> "Number", name |-> 1],
         [kind |-> "Expr", variant |-> "Symbol", name |-> 1],
         [kind |-> "Expr", variant |-> "New", path |-> <<Qualified(1, <<>>, <<TypePath(2)>>)>>,
          args |-> <<Args(Ids(MaxList), Ids(MaxList))>>],
         [kind |-> "Expr", variant |-> "List", element_ty |-> <<>>, elements |-> Ids(MaxList)],
         [kind |-> "Expr", variant |-> "List", element_ty |-> <<TypePath(1)>>,
          elements |-> <<>>],
         [kind |-> "Expr", variant |-> "Map", kv_ty |-> <<>>,
          kv |-> [i \in 1..MaxList |-> [k |-> <<Identifier(i)>>, v |-> <<Identifier(i)>>]]],
         [kind |-> "Expr", variant |-> "Map",
          kv_ty |-> <<[k |-> <<TypePath(1)>>, v |-> <<TypePath(2)>>]>>, kv |-> <<>>],
         [kind |-> "Expr", variant |-> "String",
          string_literals |-> <<StringLiteral(Ids(MaxList)), StringLiteral(<<>>)>>],
         [kind |-> "Expr", variant |-> "Cascade", expr |-> <<x>>,
          cascade |-> <<[suffixes |-> Suffixes, assign |-> <<y>>]>>],
         [kind |-> "Expr", variant |-> "Cascade", expr |-> <<x>>,
          cascade |-> <<[suffixes |-> <<>>, assign |-> <<>>]>>],
         [kind |-> "Expr", variant |-> "Closure",
          fn_sig |-> <<FnSig(<<ArgDef(Meta(<<x>>), TypeInfer, 1)>>,
                             <<ArgDef(NoMeta, TypePath(1), 2)>>)>>,
          fn_body |-> <<FnBody("Arrow", <<y>>)>>],
         [kind |-> "Expr", variant |-> "Closure", fn_sig |-> <<FnSig(<<>>, <<>>)>>,
          fn_body |-> <<FnBody("Block", <<ExprStatement(y)>>)>>]>>
        \o [i \in 1..Len(Suffixes) |->
               [kind |-> "Expr", variant |-> "Suffix", expr |-> <<x>>,
                suffix |-> <<Suffixes[i]>>]]

TryParts ==
    LET body == <<ExprStatement(Identifier(1))>>
        e == <<VarDef(1, <<>>)>>
        s == <<VarDef(2, <<>>)>>
    IN <<[kind |-> "TryPart", on |-> <<TypePath(1)>>,
          catch |-> <<[exception |-> e, trace |-> s]>>, block |-> body],
         [kind |-> "TryPart", on |-> <<>>,
          catch |-> <<[exception |-> e, trace |-> <<>>]>>, block |-> body],
         [kind |-> "TryPart", on |-> <<TypePath(1)>>, catch |-> <<>>, block |-> body]>>

Statements ==
    LET x == Identifier(1)
        y == Identifier(2)
        S(variant) == [kind |-> "Statement", variant |-> variant]
        O(variant, e) == [kind |-> "Statement", variant |-> variant, expr |-> e]
        exprs == [i \in 1..MaxList |-> ExprStatement(Identifier(i))]
        defs == [i \in 1..MaxList |-> VarDef(i, <<Identifier(i)>>)]
        body == <<ExprStatement(y)>>
        For(for_loop) ==
            [kind |-> "Statement", variant |-> "For", await |-> FALSE,
             for_loop |-> <<for_loop>>, statement |-> body]
    IN <<[kind |-> "Statement", variant |-> "Comments", statement |-> <<ExprStatement(x)>>],
         [kind |-> "Statement", variant |-> "Comments", statement |-> <<>>],
         [kind |-> "Statement", variant |-> "Block", statements |-> <<Block(exprs)>>],
         [kind |-> "Statement", variant |-> "Vars", var_type |-> <<VarType(TypePath(1))>>,
          vars |-> defs \o <<VarDef(0, <<>>)>>],
         [kind |-> "Statement", variant |-> "Function",
          function |-> <<Function(<<>>, FnSig(<<>>, <<>>), <<FnBody("Arrow", <<x>>)>>)>>],
         For([variant |-> "CLike", statement |-> <<ExprStatement(x)>>, expr |-> <<x>>,
              expressions |-> Ids(MaxList)]),
         For([variant |-> "CLike", statement |-> <<O("Expression", <<>>)>>, expr |-> <<>>,
              expressions |-> <<>>]),
         For([variant |-> "In", name |-> 1, expr |-> <<x>>]),
         For([variant |-> "InVar", ty |-> <<TypeInfer>>, var |-> <<VarDef(1, <<>>)>>,
              expr |-> <<x>>]),
         [kind |-> "Statement", variant |-> "While", expr |-> <<x>>, statement |-> body],
         [kind |-> "Statement", variant |-> "DoWhile", statement |-> body, expr |-> <<x>>],
         [kind |-> "Statement", variant |-> "Switch", expr |-> <<x>>,
          cases |-> [i \in 1..MaxList |->
                        [value |-> <<Identifier(i)>>, statements |-> exprs]]
                    \o <<[value |-> <<>>, statements |-> body]>>],
         [kind |-> "Statement", variant |-> "If", expr |-> <<x>>, statement |-> body,
          optional_statement |-> <<ExprStatement(Identifier(3))>>],
         [kind |-> "Statement", variant |-> "If", expr |-> <<x>>, statement |-> body,
          optional_statement |-> <<>>],
         S("Rethrow"), S("Break"), S("Continue"),
         [kind |-> "Statement", variant |-> "Try", statement |-> body,
          try_parts |-> TryParts],
         O("Return", <<x>>), O("Return", <<>>), O("Expression", <<>>),
         O("Yield", <<x>>), O("YieldEach", <<x>>),
         [kind |-> "Statement", variant |-> "Assert",
          args |-> <<Args(Ids(MaxList), Ids(MaxList))>>],
         [kind |-> "Statement", variant |-> "Labelled", name |-> 1, statement |-> body]>>

ConstructorInitializers ==
    LET I(variant) ==
            [kind |-> "ConstructorInitializer", variant |-> variant,
             args |-> <<Args(Ids(MaxList), <<>>)>>]
    IN <<I("Super"), I("This"), I("Assert"),
         [kind |-> "ConstructorInitializer", variant |-> "Field", name |-> 1,
          expr |-> <<Identifier(1)>>]>>

ClassMembers ==
    LET meta == <<Meta(<<Identifier(1)>>)>>
        sig == <<FnSig(<<ArgDef(Meta(<<Identifier(2)>>), TypePath(1), 1)>>, <<>>)>>
    IN <<[kind |-> "ClassMember", variant |-> "Redirect", meta |-> meta, sig |-> sig,
          path |-> <<Qualified(1, <<Qualified(2, <<>>, <<>>)>>, <<>>)>>],
         [kind |-> "ClassMember", variant |-> "Constructor", meta |-> meta, sig |-> sig,
          initializers |-> ConstructorInitializers,
          function_body |-> <<FnBody("Native", <<StringLiteral(<<Identifier(3)>>)>>)>>],
         [kind |-> "ClassMember", variant |-> "Constructor", meta |-> <<NoMeta>>,
          sig |-> sig, initializers |-> <<>>, function_body |-> <<>>],
         [kind |-> "ClassMember", variant |-> "Method", meta |-> meta,
          function |-> <<Function(<<>>, FnSig(<<>>, <<>>), <<FnBody("Native", <<>>)>>)>>],
         [kind |-> "ClassMember", variant |-> "Fields", meta |-> meta,
          var_type |-> <<VarType(TypePath(1))>>,
          initializers |-> [i \in 1..MaxList |-> VarDef(i, <<Identifier(i)>>)]]>>

Types ==
    LET sig == <<FnSig(<<>>, <<ArgDef(NoMeta, TypePath(1), 1)>>)>>
    IN <<TypePath(1), TypeInfer,
         [kind |-> "Type", variant |-> "FunctionOld", sig |-> sig],
         [kind |-> "Type", variant |-> "Function", sig |-> sig]>>

Module(path, items, has_error) ==
    [kind |-> "Module", path |-> path, items |-> items, has_error |-> has_error]

ItemVars(exprs) ==
    [kind |-> "Item", variant |-> "Vars", meta |-> <<NoMeta>>,
     var_type |-> <<VarType(TypeInfer)>>,
     vars |-> [i \in 1..Len(exprs) |-> VarDef(i, <<exprs[i]>>)]]

ItemClass(generics, superclass, members) ==
    [kind |-> "Item", variant |-> "Class", meta |-> <<NoMeta>>, name |-> 1,
     generics |-> <<Generics(generics)>>, superclass |-> superclass,
     mixins |-> [i \in 1..MaxList |-> Qualified(i, <<>>, <<>>)],
     interfaces |-> [i \in 1..MaxList |-> Qualified(i, <<>>, <<>>)],
     members |-> members]

Items ==
    LET meta == <<Meta(<<Identifier(1)>>)>>
        uri == <<StringLiteral(<<>>)>>
        generics == <<Generics(<<TypeParameter(NoMeta, 1, <<>>)>>)>>
        child == Module("/b", <<ItemVars(<<Identifier(2)>>)>>, FALSE)
        I(variant) == [kind |-> "Item", variant |-> variant, meta |-> meta]
    IN <<I("LibraryName"), I("PartOf"),
         [kind |-> "Item", variant |-> "Import", meta |-> meta, import |-> <<[uri |-> uri]>>],
         [kind |-> "Item", variant |-> "Export", meta |-> meta, string_literal |-> uri],
         [kind |-> "Item", variant |-> "Part", meta |-> meta, uri |-> uri,
          module |-> <<child>>],
         [kind |-> "Item", variant |-> "Part", meta |-> meta, uri |-> uri,
          module |-> <<Module("/b", <<>>, TRUE)>>],
         ItemClass(<<TypeParameter(Meta(<<Identifier(1)>>), 1, <<Qualified(1, <<>>, <<>>)>>),
                     TypeParameter(NoMeta, 2, <<>>)>>,
                   <<Qualified(3, <<>>, <<>>)>>, <<>>),
         ItemClass(<<>>, <<>>, ClassMembers),
         [kind |-> "Item", variant |-> "MixinClass", meta |-> meta, name |-> 1,
          generics |-> generics,
          mixins |-> [i \in 1..MaxList |-> Qualified(i, <<>>, <<>>)],
          interfaces |-> [i \in 1..MaxList |-> Qualified(i, <<>>, <<>>)]],
         [kind |-> "Item", variant |-> "Enum", meta |-> meta, name |-> 1,
          values |-> [i \in 1..MaxList |-> [meta |-> <<Meta(<<Identifier(i)>>)>>, name |-> i]]],
         ItemVars(Ids(MaxList))>>
        \o [i \in 1..Len(Types) |->
               [kind |-> "Item", variant |-> "TypeAlias", meta |-> meta, name |-> 1,
                generics |-> generics, ty |-> <<Types[i]>>]]
        \o [i \in 1..Len(ClassMembers) |-> ItemClass(<<>>, <<>>, <<ClassMembers[i]>>)]
        \o [i \in 1..Len(Exprs) |-> ItemVars(<<Exprs[i]>>)]
        \o [i \in 1..Len(Statements) |->
               [kind |-> "Item", variant |-> "Function", meta |-> <<NoMeta>>,
                function |-> <<Function(<<>>, FnSig(<<>>, <<>>),
                                        <<FnBody("Block", <<Statements[i]>>)>>)>>]]
        \o <<ItemClass(<<TypeParameter(NoMeta, 1, <<>>)>>, <<Qualified(3, <<>>, <<>>)>>,
                       SubSeq(ClassMembers, 1, MaxList))>>

ItemPart(module) ==
    [kind |-> "Item", variant |-> "Part", meta |-> <<NoMeta>>,
     uri |-> <<StringLiteral(<<>>)>>, module |-> <<module>>]

\* The modules to walk: one per item above, the empty module, one of
\* MaxList items, and one of MaxList parts that all embed the same module,
\* as Module::load gives them for one canonical path.
Modules ==
    [i \in 1..Len(Items) |-> Module("/a", <<Items[i]>>, FALSE)]
        \o <<Module("/a", <<>>, FALSE), Module("/a", SubSeq(Items, 1, MaxList), FALSE),
             Module("/a", [i \in 1..MaxList |->
                              ItemPart(Module("/b", <<ItemVars(<<Identifier(2)>>)>>, FALSE))],
                    FALSE)>>

(***************************************************************************)
(* The binary operators (src/src/dart/ast.rs).  An Option is a sequence of *)
(* no or one element; Assign(None) holds "None" in place of the operator.  *)
(***************************************************************************)
\* enum BoolBinOp and enum ValueBinOp: the variants, discriminants from 0.
BoolBinOp == <<"Or", "And", "Eq", "Ne", "Ge", "Gt", "Le", "Lt">>

ValueBinOp ==
    <<"IfNull", "Add", "Sub", "Mul", "Div", "Mod", "TruncDiv", "Lsh", "Rsh",
      "BitAnd", "BitXor", "BitOr">>

\* enum_from_primitive!: Self::from_usize.
from_usize(enum, n) == IF n < Len(enum) THEN <<enum[n + 1]>> ELSE <<>>

\* enum BinOp.
Bool(op) == [tag |-> "Bool", op |-> op]

Value(op) == [tag |-> "Value", op |-> op]

Assign(op) == [tag |-> "Assign", op |-> IF op = <<>> THEN "None" ELSE op[1]]

\* The value operators chained after the boolean ones.
ValueBeforeBool(fn) ==
    CASE fn = "BoolBinOp" -> <<"Bool">>
      [] fn = "ValueBinOp" -> <<"Value">>
      [] fn = "BinOp" -> <<"Value", "Bool", "Some", "Once">>

\* The iterators each values() chains, in the order of the chain.
Chain(fn) ==
    CASE fn = "BoolBinOp" -> <<"Bool">>
      [] fn = "ValueBinOp" -> <<"Value">>
      [] fn = "BinOp" -> <<"Bool", "Value", "Some", "Once">>

\* next() of one link after it has returned n items: (0..).map(from_usize)
\* .take_while(is_some).map(unwrap), the same with .map(Some), iter::once(None).
LinkNext(fn, link, n) ==
    LET bool == from_usize(BoolBinOp, n)
        value == from_usize(ValueBinOp, n)
    IN CASE link = "Bool" ->
              IF bool = <<>> THEN <<>>
              ELSE IF fn = "BinOp" THEN <<Bool(bool[1])>> ELSE bool
         [] link = "Value" ->
              IF value = <<>> THEN <<>>
              ELSE IF fn = "BinOp" THEN <<Value(value[1])>> ELSE value
         [] link = "Some" -> IF value = <<>> THEN <<>> ELSE <<Assign(value)>>
         [] link = "Once" -> IF n = 0 THEN <<Assign(<<>>)>> ELSE <<>>

\* Iterator::next of the chain: the item, if any, and the iterator after it.
RECURSIVE IterNext(_)
IterNext(it) ==
    IF it.link > Len(Chain(it.fn)) THEN [item |-> <<>>, it |-> it]
    ELSE LET item == LinkNext(it.fn, Chain(it.fn)[it.link], it.n)
         IN IF item # <<>> THEN [item |-> item, it |-> [it EXCEPT !.n = @ + 1]]
            ELSE IterNext([it EXCEPT !.link = @ + 1, !.n = 0])

\* macro value_bin_op!($op, $suffix) in BinOp::as_str.
value_bin_op(op, suffix) ==
    CASE op = "IfNull" -> "??" \o suffix
      [] op = "Add" -> "+" \o suffix
      [] op = "Sub" -> "-" \o suffix
      [] op = "Mul" -> "*" \o suffix
      [] op = "Div" -> "/" \o suffix
      [] op = "Mod" -> "%" \o suffix
      [] op = "TruncDiv" -> "~/" \o suffix
      [] op = "Lsh" -> "<<" \o suffix
      [] op = "Rsh" -> ">>" \o suffix
      [] op = "BitAnd" -> "&" \o suffix
      [] op = "BitXor" -> "^" \o suffix
      [] op = "BitOr" -> "|" \o suffix

\* The arms of BinOp::as_str for BinOp::Bool.
bool_bin_op(op) ==
    CASE op = "Or" -> "||"
      [] op = "And" -> "&&"
      [] op = "Eq" -> "=="
      [] op = "Ne" -> "!="
      [] op = "Ge" -> ">="
      [] op = "Gt" -> ">"
      [] op = "Le" -> "<="
      [] op = "Lt" -> "<"

\* A compound assignment spelled as its value operator.
AssignWithoutSuffix(self) ==
    CASE self.tag = "Bool" -> bool_bin_op(self.op)
      [] self.tag = "Value" -> value_bin_op(self.op, "")
      [] self.tag = "Assign" /\ self.op # "None" -> value_bin_op(self.op, "")
      [] self.tag = "Assign" /\ self.op = "None" -> "="

\* The plain assignment spelled as the equality test.
AssignSpelledAsEq(self) ==
    CASE self.tag = "Bool" -> bool_bin_op(self.op)
      [] self.tag = "Value" -> value_bin_op(self.op, "")
      [] self.tag = "Assign" /\ self.op # "None" -> value_bin_op(self.op, "=")
      [] self.tag = "Assign" /\ self.op = "None" -> "=="

\* BinOp::as_str.
as_str(self) ==
    CASE self.tag = "Bool" -> bool_bin_op(self.op)
      [] self.tag = "Value" -> value_bin_op(self.op, "")
      [] self.tag = "Assign" /\ self.op # "None" -> value_bin_op(self.op, "=")
      [] self.tag = "Assign" /\ self.op = "None" -> "="

\* No operator enumeration is in use.
NoOps ==
    /\ iter = <<>>
    /\ yielded = <<>>
    /\ exhausted = FALSE
    /\ ncalls = 0
    /\ spelled = <<>>

\* No traversal is going on while the loader runs.
NoVisit ==
    /\ root = Module("", <<>>, FALSE)
    /\ agenda = <<>>
    /\ trace = <<>>

\* One worker thread, the use the loader is designed for.
Init == LoaderInit({1}, Contents) /\ NoVisit /\ NoOps

\* Several worker threads, over files of at most one item.
InitWorkers == LoaderInit(Threads, {c \in Contents : Len(c.items) <= 1}) /\ NoVisit /\ NoOps

Workers == DOMAIN stack

Next ==
    \/ \E t \in Workers : \E arg \in Spellings : Load(t, arg)
    \/ \E t \in Workers : CanonFail(t)
    \/ \E t \in Workers : CacheHit(t)
    \/ \E t \in Workers : ParseStart(t)
    \/ \E t \in Workers : ParseFail(t)
    \/ \E t \in Workers : ParseClass(t)
    \/ \E t \in Workers : ParsePart(t)
    \/ \E t \in Workers : StackOverflow(t)
    \/ \E t \in Workers : ParseDone(t)

Spec == Init /\ [][Next]_vars

SpecWorkers == InitWorkers /\ [][Next]_vars

(***************************************************************************)
(* The traversal.  `agenda` holds the places of the nodes whose visit has  *)
(* been called and not yet begun, next first: the calls still to come in   *)
(* the super_visit bodies on the call stack.  Every Visitor method is the  *)
(* default one: it calls super_visit, which calls visit on the children.   *)
(***************************************************************************)
\* Blocks have no case in the structural recursion.
NoCaseForBlock(kind) ==
    agenda # <<>> /\ kind # "Block" /\ NodeAt(root, Head(agenda)).kind = kind

Visiting(kind) == agenda # <<>> /\ NodeAt(root, Head(agenda)).kind = kind

\* visitor.dart_x(node), the default method: node.super_visit(visitor).
Call(hook) ==
    LET pos == Head(agenda)
        calls == SuperVisit(NodeAt(root, pos))
    IN /\ trace' = Append(trace, [hook |-> hook, pos |-> pos])
       /\ agenda' = [i \in 1..Len(calls) |-> Append(pos, calls[i])] \o Tail(agenda)

dart_module ==
    /\ Visiting("Module")
    /\ Call("dart_module")
    /\ UNCHANGED <<root, loaderVars, opVars>>

dart_item ==
    /\ Visiting("Item")
    /\ Call("dart_item")
    /\ UNCHANGED <<root, loaderVars, opVars>>

dart_class_member ==
    /\ Visiting("ClassMember")
    /\ Call("dart_class_member")
    /\ UNCHANGED <<root, loaderVars, opVars>>

dart_constructor_initializer ==
    /\ Visiting("ConstructorInitializer")
    /\ Call("dart_constructor_initializer")
    /\ UNCHANGED <<root, loaderVars, opVars>>

dart_meta ==
    /\ Visiting("Meta")
    /\ Call("dart_meta")
    /\ UNCHANGED <<root, loaderVars, opVars>>

dart_qualified ==
    /\ Visiting("Qualified")
    /\ Call("dart_qualified")
    /\ UNCHANGED <<root, loaderVars, opVars>>

dart_generics ==
    /\ Visiting("Generics")
    /\ Call("dart_generics")
    /\ UNCHANGED <<root, loaderVars, opVars>>

dart_type ==
    /\ Visiting("Type")
    /\ Call("dart_type")
    /\ UNCHANGED <<root, loaderVars, opVars>>

dart_function ==
    /\ Visiting("Function")
    /\ Call("dart_function")
    /\ UNCHANGED <<root, loaderVars, opVars>>

dart_fn_sig ==
    /\ Visiting("FnSig")
    /\ Call("dart_fn_sig")
    /\ UNCHANGED <<root, loaderVars, opVars>>

dart_fn_body ==
    /\ Visiting("FnBody")
    /\ Call("dart_fn_body")
    /\ UNCHANGED <<root, loaderVars, opVars>>

dart_try_part ==
    /\ Visiting("TryPart")
    /\ Call("dart_try_part")
    /\ UNCHANGED <<root, loaderVars, opVars>>

dart_statement ==
    /\ Visiting("Statement")
    /\ Call("dart_statement")
    /\ UNCHANGED <<root, loaderVars, opVars>>

dart_block ==
    /\ Visiting("Block")
    /\ Call("dart_block")
    /\ UNCHANGED <<root, loaderVars, opVars>>

dart_var_def ==
    /\ Visiting("VarDef")
    /\ Call("dart_var_def")
    /\ UNCHANGED <<root, loaderVars, opVars>>

dart_expr ==
    /\ Visiting("Expr")
    /\ Call("dart_expr")
    /\ UNCHANGED <<root, loaderVars, opVars>>

dart_args ==
    /\ Visiting("Args")
    /\ Call("dart_args")
    /\ UNCHANGED <<root, loaderVars, opVars>>

dart_suffix ==
    /\ Visiting("Suffix")
    /\ Call("dart_suffix")
    /\ UNCHANGED <<root, loaderVars, opVars>>

dart_string_literal ==
    /\ Visiting("StringLiteral")
    /\ Call("dart_string_literal")
    /\ UNCHANGED <<root, loaderVars, opVars>>

\* A caller hands one of the modules to a visitor: module.visit(visitor).
InitVisit ==
    /\ \E i \in 1..Len(Modules) : root = Modules[i]
    /\ agenda = <<<<>>>>
    /\ trace = <<>>
    /\ LoaderInit({}, {[items |-> <<>>, err |-> "missing"]})
    /\ NoOps

NextVisit ==
    \/ dart_module
    \/ dart_item
    \/ dart_class_member
    \/ dart_constructor_initializer
    \/ dart_meta
    \/ dart_qualified
    \/ dart_generics
    \/ dart_type
    \/ dart_function
    \/ dart_fn_sig
    \/ dart_fn_body
    \/ dart_try_part
    \/ dart_statement
    \/ dart_block
    \/ dart_var_def
    \/ dart_expr
    \/ dart_args
    \/ dart_suffix
    \/ dart_string_literal

SpecVisit == InitVisit /\ [][NextVisit]_vars

\* visit is a chain of calls in one thread: a call that can be made is made.
SpecVisitFair == SpecVisit /\ WF_vars(NextVisit)

(***************************************************************************)
(* The operator enumerations in use: values() returns a new iterator, the  *)
(* caller draws items from it with next(), and spells operators it got     *)
(* with as_str().                                                          *)
(***************************************************************************)
Enumerations == {"BoolBinOp", "ValueBinOp", "BinOp"}

\* BoolBinOp::values(), ValueBinOp::values(), BinOp::values().
values(fn) ==
    /\ ncalls < MaxCalls
    /\ ncalls' = ncalls + 1
    /\ iter' = <<[fn |-> fn, link |-> 1, n |-> 0]>>
    /\ yielded' = <<>>
    /\ exhausted' = FALSE
    /\ UNCHANGED <<spelled, loaderVars, visitVars>>

\* Iterator::next on the iterator in hand.
next ==
    /\ iter # <<>>
    /\ ~exhausted
    /\ LET r == IterNext(iter[1])
       IN /\ iter' = <<r.it>>
          /\ yielded' = yielded \o r.item
          /\ exhausted' = (r.item = <<>>)
    /\ UNCHANGED <<ncalls, spelled, loaderVars, visitVars>>

\* op.as_str() on a BinOp the iterator has returned.
Spell(i) ==
    /\ iter # <<>>
    /\ iter[1].fn = "BinOp"
    /\ spelled' = <<[op |-> yielded[i], str |-> as_str(yielded[i])]>>
    /\ UNCHANGED <<iter, yielded, exhausted, ncalls, loaderVars, visitVars>>

InitOps ==
    /\ NoOps
    /\ NoVisit
    /\ LoaderInit({}, {[items |-> <<>>, err |-> "missing"]})

NextOps ==
    \/ \E fn \in Enumerations : values(fn)
    \/ next
    \/ \E i \in DOMAIN yielded : Spell(i)

SpecOps == InitOps /\ [][NextOps]_vars


(***************************************************************************)
(* Properties of Module::load                                              *)
(***************************************************************************)
Requested(r) == fs[Resolve(r.arg)]

Broken(p) == fs[Resolve(p)].err # "none"

\* C1: within one thread, every load that returns for a spelling of one
\* canonical file returns the same Node<Module>, and once a load of that file
\* has returned the parser has run on it once and never runs on it again.
SameModulePerCanonicalPath ==
    /\ \A r1, r2 \in returns :
          (r1.t = r2.t /\ r1.path \in Files /\ r1.path = r2.path)
              => r1.module = r2.module
    /\ \A r \in returns : r.path \in Files => parses[r.t][r.path] = 1

\* Two different spellings of one file were loaded, the second from the cache.
TwoSpellingsLoaded ==
    \E r1, r2 \in returns :
        /\ r1.t = r2.t /\ r1.path = r2.path /\ r1.path \in Files
        /\ r1.arg # r2.arg
        /\ r1.outcome = "ok" /\ r2.outcome = "hit"

\* C2: a load of a path that is missing, unreadable or rejected by the lexer
\* or the parser returns a module with has_error set and no items.
FailedLoadReturnsFlaggedEmptyModule ==
    \A r \in returns :
        (r.outcome \in {"io", "syntax"} \/ Broken(r.arg))
            => /\ r.module \in 1..Len(heap)
               /\ heap[r.module].has_error
               /\ heap[r.module].items = <<>>

\* A missing path and a syntactically invalid file have both been loaded.
MissingAndInvalidLoaded ==
    /\ \E r \in returns : Requested(r).err = "missing" /\ r.outcome = "io"
    /\ \E r \in returns : Requested(r).err \in {"lex", "parse"} /\ r.outcome = "syntax"

\* C3: no thread prints more than one diagnostic for one broken path.
OneDiagnosticPerBrokenPath ==
    \A t \in DOMAIN printed : \A p \in Paths : printed[t][p] <= 1

\* C4: a module that a load returned or that the cache holds has has_error
\* set exactly when loading its file fails, and then has no items.
FlagIffLoadFailed ==
    /\ \A r \in returns :
          /\ heap[r.module].has_error <=> Broken(r.arg)
          /\ heap[r.module].has_error => heap[r.module].items = <<>>
    /\ \A s \in Threads : \A k \in Paths :
          cache[s][k] # 0 =>
              /\ heap[cache[s][k]].has_error <=> Broken(k)
              /\ heap[cache[s][k]].has_error => heap[cache[s][k]].items = <<>>

\* The cache holds a failed module and a successful one with items.
FailedAndGoodCached ==
    \E s \in Threads : \E k1, k2 \in Paths :
        /\ cache[s][k1] # 0 /\ heap[cache[s][k1]].has_error
        /\ cache[s][k2] # 0 /\ ~heap[cache[s][k2]].has_error
        /\ heap[cache[s][k2]].items # <<>>

\* C5: the load of a well-formed file returns a module without the error
\* flag that holds all the file's items in order; a Part item whose target
\* is missing or invalid holds that target's flagged module.
PartErrorContained ==
    \A r \in returns :
        Requested(r).err = "none" =>
            LET src == Requested(r).items
                m == heap[r.module]
            IN /\ ~m.has_error
               /\ Len(m.items) = Len(src)
               /\ \A i \in 1..Len(src) :
                     IF src[i] = "class"
                         THEN m.items[i].kind = "Class"
                         ELSE /\ m.items[i].kind = "Part"
                              /\ Resolve(heap[m.items[i].module].path) = Resolve(src[i])
                              /\ Broken(src[i]) => heap[m.items[i].module].has_error

\* A well-formed file with a class and a part of a broken file was loaded.
BrokenPartLoaded ==
    \E r \in returns :
        /\ Requested(r).err = "none"
        /\ \E i, j \in 1..Len(Requested(r).items) :
              /\ Requested(r).items[i] = "class"
              /\ Requested(r).items[j] \in Spellings
              /\ Broken(Requested(r).items[j])

\* C6: no load recurses without bound: a file whose parse is in progress is
\* not parsed again by a nested load, and the stack is never exhausted.
LoadNeverRecursesIntoItself ==
    /\ ~crashed
    /\ \A t \in DOMAIN stack : \A i, j \in 1..Len(stack[t]) :
          (i < j /\ stack[t][i].pc = "parse" /\ stack[t][j].pc = "parse")
              => stack[t][i].path # stack[t][j].path

\* C7: an entry of the cache is never removed nor replaced.
CacheEntryNeverReplaced ==
    [][\A s \in Threads : \A k \in Paths :
          cache[s][k] # 0 => cache'[s][k] = cache[s][k]]_vars

\* C8: a thread's cache holds and hands out only modules that thread built,
\* no module is returned in two threads, every thread parses a file it loads
\* once itself, and a step of one thread changes no other thread's cache.
CacheIsThreadConfined ==
    /\ [](/\ \A s \in Threads : \A k \in Paths :
                cache[s][k] # 0 => owner[cache[s][k]] = s
          /\ \A r \in returns : owner[r.module] = r.t
          /\ \A r1, r2 \in returns : r1.t # r2.t => r1.module # r2.module
          /\ \A r \in returns : r.path \in Files => parses[r.t][r.path] = 1)
    /\ [][\A s \in Threads :
              cache'[s] # cache[s] => stack'[s] # stack[s]]_vars

\* Two threads have each loaded the same file by parsing it.
TwoThreadsLoadedSameFile ==
    \E r1, r2 \in returns :
        /\ r1.t # r2.t /\ r1.path = r2.path /\ r1.path \in Files
        /\ r1.outcome = "ok" /\ r2.outcome = "ok"

(***************************************************************************)
(* Properties of the traversal                                             *)
(***************************************************************************)
Range(s) == {s[i] : i \in DOMAIN s}

\* The places of all the nodes of the tree under n, which is at pos.
RECURSIVE Places(_, _)
Places(n, pos) ==
    {pos} \cup UNION {Places(Child(n, a), Append(pos, a)) : a \in Range(Children(n))}

IdentifierPlaces ==
    {p \in Places(root, <<>>) :
        NodeAt(root, p).kind = "Expr" /\ NodeAt(root, p).variant = "Identifier"}

Called(hook, pos) ==
    \E i \in DOMAIN trace : trace[i].hook = hook /\ trace[i].pos = pos

Walked == agenda = <<>> /\ trace # <<>>

\* C9: when the traversal is over, dart_expr has been called for every
\* Expr::Identifier of the tree.
EveryIdentifierVisited ==
    Walked => \A p \in IdentifierPlaces : Called("dart_expr", p)

\* The place of a node as numbers: at each level the rank of the child among
\* its parent's children in declaration order.
RankOf(n, a) == CHOOSE i \in DOMAIN Children(n) : Children(n)[i] = a

RECURSIVE Ranks(_, _)
Ranks(n, pos) ==
    IF pos = <<>> THEN <<>>
    ELSE <<RankOf(n, Head(pos))>> \o Ranks(Child(n, Head(pos)), Tail(pos))

\* p is an ancestor of q, or p is in a subtree to the left of q's.
RECURSIVE Before(_, _)
Before(p, q) ==
    CASE p = <<>> -> q # <<>>
      [] q = <<>> -> FALSE
      [] Head(p) # Head(q) -> Head(p) < Head(q)
      [] OTHER -> Before(Tail(p), Tail(q))

IsPrefix(p, q) == Len(p) <= Len(q) /\ SubSeq(q, 1, Len(p)) = p

\* C10: the hooks are called in pre-order, depth-first, siblings in
\* declaration order: a node before its descendants, the subtree of a node
\* without interruption, and of two calls the earlier is for an ancestor of
\* the later's node or for a node to the left of it.
PreOrderDepthFirst ==
    \A i, j \in DOMAIN trace :
        i < j =>
            /\ ~IsPrefix(trace[j].pos, trace[i].pos)
            /\ Before(Ranks(root, trace[i].pos), Ranks(root, trace[j].pos))
            /\ \A k \in DOMAIN trace :
                  (j < k /\ IsPrefix(trace[i].pos, trace[k].pos))
                      => IsPrefix(trace[i].pos, trace[j].pos)

\* A walk is over that went through an argument list holding both unnamed
\* and named arguments.
ArgumentsWalked ==
    /\ Walked
    /\ \E i \in DOMAIN trace :
          /\ trace[i].hook = "dart_args"
          /\ NodeAt(root, trace[i].pos).unnamed # <<>>
          /\ NodeAt(root, trace[i].pos).named # <<>>

(***************************************************************************)
(* Orders of the structural recursion                                      *)
(***************************************************************************)
\* The visit of the node at pos has been called and its subtree is done.
Done(pos) ==
    /\ \E i \in DOMAIN trace : trace[i].pos = pos
    /\ \A i \in DOMAIN agenda : ~IsPrefix(pos, agenda[i])

\* Where the children of the node at pos sit in it, in the order in which
\* their hooks were called.
ChildCalls(pos) ==
    LET calls == SelectSeq(trace, LAMBDA e : Len(e.pos) = Len(pos) + 1 /\ IsPrefix(pos, e.pos))
    IN [i \in 1..Len(calls) |-> calls[i].pos[Len(pos) + 1]]

\* The elements of the fields of n, field after field, each in list order.
InOrder(n, fields) == Flat([k \in 1..Len(fields) |-> Each(n, fields[k])])

ClassPlaces ==
    {p \in Places(root, <<>>) :
        NodeAt(root, p).kind = "Item" /\ NodeAt(root, p).variant = "Class"}

\* C11: once a class has been visited, the hooks of its children have been
\* called once each, in the order metadata, generic parameters, superclass
\* (if any), mixins, interfaces, members, each list in list order.
ClassChildrenInOrder ==
    \A p \in ClassPlaces :
        Done(p) =>
            ChildCalls(p) =
                InOrder(NodeAt(root, p),
                        <<"meta", "generics", "superclass", "mixins", "interfaces", "members">>)

\* A class with a superclass, several mixins, several interfaces and several
\* members has been visited.
FullClassWalked ==
    \E p \in ClassPlaces :
        /\ Done(p)
        /\ NodeAt(root, p).superclass # <<>>
        /\ Len(NodeAt(root, p).mixins) > 1
        /\ Len(NodeAt(root, p).interfaces) > 1
        /\ Len(NodeAt(root, p).members) > 1

TryPlaces ==
    {p \in Places(root, <<>>) :
        NodeAt(root, p).kind = "Statement" /\ NodeAt(root, p).variant = "Try"}

TryPartPlaces == {p \in Places(root, <<>>) : NodeAt(root, p).kind = "TryPart"}

\* The guard type, the exception binder, the trace binder and the body of a
\* catch clause, those there are.
ClauseOrder(n) ==
    Each(n, "on")
        \o (IF n.catch = <<>> THEN <<>>
            ELSE Sub(n, "catch", 1, "exception") \o Sub(n, "catch", 1, "trace"))
        \o Each(n, "block")

\* C12: once a try statement has been visited, the hooks of its children
\* have been called for the protected block, then for the catch clauses in
\* list order; and in each clause for the guard type if there is one, the
\* exception binder, the trace binder if there is one, then the body.
TryChildrenInOrder ==
    /\ \A p \in TryPlaces :
          Done(p) =>
              ChildCalls(p) = InOrder(NodeAt(root, p), <<"statement", "try_parts">>)
    /\ \A q \in TryPartPlaces :
          Done(q) => ChildCalls(q) = ClauseOrder(NodeAt(root, q))

\* A try statement has been visited that has a clause with a guard and both
\* binders and a clause without a guard.
TryWithClausesWalked ==
    \E p \in TryPlaces :
        LET parts == NodeAt(root, p).try_parts
        IN /\ Done(p)
           /\ \E i \in DOMAIN parts :
                 /\ parts[i].on # <<>> /\ parts[i].catch # <<>>
                 /\ parts[i].catch[1].trace # <<>>
           /\ \E i \in DOMAIN parts : parts[i].on = <<>>

\* C13: the default traversal never fails and comes to an end: a hook is
\* called only for a node the tree has (a child that is absent gets no call),
\* every pending visit has a case to run, and in the end none is pending.
TraversalNeverFailsAndEnds ==
    /\ [](\A i \in DOMAIN trace : trace[i].pos \in Places(root, <<>>))
    /\ [](agenda # <<>> => ENABLED NextVisit)
    /\ <>(agenda = <<>>)

\* A walk is over of a tree with an if statement without an else branch.
IfWithoutElseWalked ==
    /\ Walked
    /\ \E p \in Places(root, <<>>) :
          LET n == NodeAt(root, p)
          IN /\ n.kind = "Statement" /\ n.variant = "If"
             /\ n.optional_statement = <<>>
             /\ Called("dart_statement", p)

(***************************************************************************)
(* Properties of the operator enumerations                                 *)
(***************************************************************************)
BoolInOrder == <<"Or", "And", "Eq", "Ne", "Ge", "Gt", "Le", "Lt">>

ValueInOrder ==
    <<"IfNull", "Add", "Sub", "Mul", "Div", "Mod", "TruncDiv", "Lsh", "Rsh",
      "BitAnd", "BitXor", "BitOr">>

BinOpInOrder ==
    [i \in 1..8 |-> Bool(BoolInOrder[i])]
        \o [i \in 1..12 |-> Value(ValueInOrder[i])]
        \o [i \in 1..12 |-> Assign(<<ValueInOrder[i]>>)]
        \o <<Assign(<<>>)>>

InOrderOf(fn) ==
    CASE fn = "BoolBinOp" -> BoolInOrder
      [] fn = "ValueBinOp" -> ValueInOrder
      [] fn = "BinOp" -> BinOpInOrder

\* C14: the items an iterator returned by values() has yielded are the first
\* variants of its enumeration in the stated order, whichever call of
\* values() made it, and all of them, none twice, once it is exhausted.
ValuesInOrder ==
    iter # <<>> =>
        /\ IsPrefix(yielded, InOrderOf(iter[1].fn))
        /\ exhausted => yielded = InOrderOf(iter[1].fn)
        /\ \A i, j \in DOMAIN yielded : yielded[i] = yielded[j] => i = j

\* The iterator of a second call of BinOp::values() has yielded all 33 values.
SecondEnumerationDone ==
    /\ ncalls = 2
    /\ iter # <<>> /\ iter[1].fn = "BinOp"
    /\ exhausted
    /\ Len(yielded) = 33

\* C15: the spelling of Assign(Some(v)) is the spelling of Value(v) followed
\* by "=", and the spelling of Assign(None) is "=".
CompoundAssignSpelling ==
    /\ \A i \in DOMAIN spelled :
          spelled[i].op.tag = "Assign" =>
              spelled[i].str = IF spelled[i].op.op = "None" THEN "="
                               ELSE as_str(Value(spelled[i].op.op)) \o "="
    /\ \A i \in DOMAIN ValueInOrder :
          as_str(Assign(<<ValueInOrder[i]>>)) = as_str(Value(ValueInOrder[i])) \o "="
    /\ as_str(Value("Add")) = "+" /\ as_str(Assign(<<"Add">>)) = "+="
    /\ as_str(Assign(<<>>)) = "="

\* Assign(Some(Add)), drawn from BinOp::values(), has been spelled "+=".
AddAssignSpelled ==
    /\ spelled # <<>>
    /\ spelled[1].op = Assign(<<"Add">>)
    /\ spelled[1].str = "+="

\* The operator a spelling stands for, among those yielded.
FromStr(str) == CHOOSE op \in Range(yielded) : as_str(op) = str

\* C16: no two of the operators BinOp::values() yields have the same
\* spelling, the 33 operators have 33 spellings, and the operator that a
\* spelling stands for is the one that was spelled.
SpellingRoundTrip ==
    (iter # <<>> /\ iter[1].fn = "BinOp") =>
        /\ \A a, b \in Range(yielded) : as_str(a) = as_str(b) => a = b
        /\ exhausted => Cardinality({as_str(a) : a \in Range(yielded)}) = 33
        /\ \A i \in DOMAIN spelled :
              spelled[i].op \in Range(yielded) => FromStr(spelled[i].str) = spelled[i].op

\* All of BinOp::values() has been drawn and the plain assignment spelled.
AllSpellingsDrawn ==
    /\ iter # <<>> /\ iter[1].fn = "BinOp"
    /\ exhausted
    /\ spelled # <<>>
    /\ spelled[1].op = Assign(<<>>)
    /\ spelled[1].op \in Range(yielded)

(***************************************************************************)
(* Further properties of Module::load                                      *)
(***************************************************************************)
\* C17: every key of a thread's cache is a canonical path, the outcome of
\* canonicalizing a requested path, and is the path of the module it maps to.
CacheKeysAreCanonicalPaths ==
    \A s \in Threads : \A k \in Paths :
        cache[s][k] # 0 =>
            /\ heap[cache[s][k]].path = k
            /\ \E arg \in Spellings : Canonicalize(arg, fs).ok /\ Canonicalize(arg, fs).path = k

\* C18: no borrow of the cache is alive while a parser runs, and no load,
\* at any depth, panics on a borrow of the cache.
NoBorrowAcrossParse ==
    \A t \in DOMAIN stack :
        /\ ~panicked[t]
        /\ (\E i \in DOMAIN stack[t] : stack[t][i].pc = "parse")
              => borrow[CacheSlot(t)] = 0

\* A load nested in a parse has inserted its module and returned, and the
\* same parse is in a further nested load, which has looked its path up.
NestedLoadsDone ==
    \E t \in DOMAIN stack :
        /\ Len(stack[t]) >= 2
        /\ \E i \in DOMAIN stack[t][1].items : stack[t][1].items[i].kind = "Part"
        /\ Top(t).pc = "parse"

(***************************************************************************)
(* Shared modules in the traversal                                         *)
(***************************************************************************)
PartPlaces ==
    {p \in Places(root, <<>>) :
        NodeAt(root, p).kind = "Item" /\ NodeAt(root, p).variant = "Part"}

ModulePlaces == {p \in Places(root, <<>>) : NodeAt(root, p).kind = "Module"}

\* The Part items that embed module m.
Embedding(m) == {p \in PartPlaces : NodeAt(root, p).module = <<m>>}

\* The calls of dart_module that were for module m.
ModuleCalls(m) ==
    {i \in DOMAIN trace :
        trace[i].hook = "dart_module" /\ NodeAt(root, trace[i].pos) = m}

\* C19: a Part item has its metadata, its uri and then its module visited;
\* every module visited has all its items visited, whether or not it was
\* visited before; and after the walk dart_module has been called for a
\* module embedded by k Part items exactly k times.
SharedModuleVisitedPerPart ==
    /\ \A p \in PartPlaces :
          Done(p) => ChildCalls(p) = InOrder(NodeAt(root, p), <<"meta", "uri", "module">>)
    /\ \A q \in ModulePlaces :
          Done(q) => ChildCalls(q) = InOrder(NodeAt(root, q), <<"items">>)
    /\ Walked =>
          \A p \in PartPlaces :
              LET m == NodeAt(root, p).module[1]
              IN Cardinality(ModuleCalls(m)) = Cardinality(Embedding(m))

\* A walk is over of a tree where several Part items embed one module that
\* has items.
SharedModuleWalked ==
    /\ Walked
    /\ \E p \in PartPlaces :
          LET m == NodeAt(root, p).module[1]
          IN Cardinality(Embedding(m)) > 1 /\ m.items # <<>>

====
